---- MODULE Spec2Model ----
(***************************************************************************)
(* The LS-8 emulator of src/ls8/cpu.py as a state machine.                 *)
(*                                                                         *)
(* The emulator is written in Python 3, whose registers and memory cells   *)
(* are untyped slots: the ALU never masks a result, true division yields   *)
(* a float and CMP stores the text produced by bin().  A slot therefore    *)
(* holds a Python value of one of three kinds, and every operation is      *)
(* modelled with the exceptions Python raises for it.                      *)
(***************************************************************************)
EXTENDS Integers, Sequences, FiniteSets, TLC

(***************************************************************************)
(* Bounds of the model.                                                    *)
(***************************************************************************)
\* immediates of the enumerated programs are 0..MaxImm
MaxImm == 1
\* integers (and numerators/denominators of floats) are kept within
\* -MaxAbs..MaxAbs; a step whose result leaves the range is not taken
MaxAbs == 30000
\* strings are kept to at most MaxStrLen characters
MaxStrLen == 12

(***************************************************************************)
(* Python values.  k is the kind: "int", "float" or "str".  A float is     *)
(* kept as the reduced fraction n/d (d > 0); binary64 rounding is not      *)
(* modelled.  A str is the sequence s of its characters.                   *)
(***************************************************************************)
IntV(x) == [k |-> "int", n |-> x, d |-> 1, s |-> <<>>]
StrV(t) == [k |-> "str", n |-> 0, d |-> 1, s |-> t]

Abs(x) == IF x < 0 THEN -x ELSE x

RECURSIVE Gcd(_, _)
Gcd(a, b) == IF b = 0 THEN a ELSE Gcd(b, a % b)

FloatV(x, y) ==
    LET g  == Gcd(Abs(x), Abs(y))
        sg == IF y < 0 THEN -1 ELSE 1
    IN [k |-> "float", n |-> sg * (x \div g), d |-> sg * (y \div g), s |-> <<>>]

\* An exception raised while evaluating an expression, carried as a value.
Raise(e) == [k |-> e, n |-> 0, d |-> 1, s |-> <<>>]
\* A result outside the bounds of the model (not a Python outcome).
TooBig == Raise("ModelBound")

Exceptions == {"TypeError", "IndexError", "ValueError", "Exception"}
IsNum(v) == v.k \in {"int", "float"}
IsVal(v) == v.k \in {"int", "float", "str"}
IsExc(v) == ~IsVal(v)

\* The number x/y as the kind Python gives the result, when it is within the
\* model's range.
NumV(kind, x, y) ==
    LET v == IF kind = "int" THEN IntV(x) ELSE FloatV(x, y)
    IN IF Abs(v.n) > MaxAbs \/ Abs(v.d) > MaxAbs THEN TooBig ELSE v
Mixed(a, b) == IF a.k = "int" /\ b.k = "int" THEN "int" ELSE "float"

\* Python ==, <, > on two values (numbers compare by value across int/float,
\* strings compare lexicographically by code point: "0" < "1" < "b").
CharOrd(c) == CASE c = "0" -> 48 [] c = "1" -> 49 [] OTHER -> 98
RECURSIVE StrLt(_, _)
StrLt(s, t) ==
    IF t = <<>> THEN FALSE
    ELSE IF s = <<>> THEN TRUE
    ELSE IF CharOrd(Head(s)) # CharOrd(Head(t)) THEN CharOrd(Head(s)) < CharOrd(Head(t))
    ELSE StrLt(Tail(s), Tail(t))

PyEq(a, b) ==
    IF IsNum(a) /\ IsNum(b) THEN a.n * b.d = b.n * a.d
    ELSE a.k = "str" /\ b.k = "str" /\ a.s = b.s
\* "TypeError" when the operands are not ordered (a str against a number)
PyOrdered(a, b) == (IsNum(a) /\ IsNum(b)) \/ (a.k = "str" /\ b.k = "str")
PyLt(a, b) ==
    IF IsNum(a) THEN a.n * b.d < b.n * a.d ELSE StrLt(a.s, b.s)

(***************************************************************************)
(* Python arithmetic, as the ALU uses it (cpu.py:134-209).                 *)
(***************************************************************************)
RECURSIVE Repeat(_, _)
Repeat(t, c) == IF c <= 0 THEN <<>> ELSE t \o Repeat(t, c - 1)

\* a + b
PyAdd(a, b) ==
    IF IsNum(a) /\ IsNum(b)
    THEN NumV(Mixed(a, b), a.n * b.d + b.n * a.d, a.d * b.d)
    ELSE IF a.k = "str" /\ b.k = "str"
    THEN IF Len(a.s) + Len(b.s) > MaxStrLen THEN TooBig ELSE StrV(a.s \o b.s)
    ELSE Raise("TypeError")

\* a - b
PySub(a, b) ==
    IF IsNum(a) /\ IsNum(b)
    THEN NumV(Mixed(a, b), a.n * b.d - b.n * a.d, a.d * b.d)
    ELSE Raise("TypeError")

\* a * b: a product of numbers, or the repetition of a str by an int
PyMul(a, b) ==
    IF IsNum(a) /\ IsNum(b)
    THEN NumV(Mixed(a, b), a.n * b.n, a.d * b.d)
    ELSE IF (a.k = "str" /\ b.k = "int") \/ (a.k = "int" /\ b.k = "str")
    THEN LET t == IF a.k = "str" THEN a.s ELSE b.s
             c == IF a.k = "str" THEN b.n ELSE a.n
         IN IF c > 0 /\ Len(t) * c > MaxStrLen THEN TooBig ELSE StrV(Repeat(t, c))
    ELSE Raise("TypeError")

\* a / b, true division, b known to be # 0: always a float
PyTrueDiv(a, b) ==
    IF IsNum(a) /\ IsNum(b)
    THEN NumV("float", a.n * b.d, a.d * b.n)
    ELSE Raise("TypeError")

\* a % b, b known to be # 0: the remainder has the sign of b.  With a str on
\* the left % is string formatting, which no str of the machine accepts.
PyMod(a, b) ==
    IF IsNum(a) /\ IsNum(b)
    THEN LET x == a.n * b.d
             y == b.n * a.d
             m == IF y > 0 THEN x % y ELSE -((-x) % (-y))
         IN NumV(Mixed(a, b), m, a.d * b.d)
    ELSE Raise("TypeError")

\* Bitwise operators on Python's unbounded two's-complement integers.
RECURSIVE BitAnd(_, _)
BitAnd(x, y) ==
    IF x = 0 \/ y = 0 THEN 0
    ELSE IF x = -1 THEN y
    ELSE IF y = -1 THEN x
    ELSE (x % 2) * (y % 2) + 2 * BitAnd(x \div 2, y \div 2)

RECURSIVE BitOr(_, _)
BitOr(x, y) ==
    IF x = 0 THEN y
    ELSE IF y = 0 THEN x
    ELSE IF x = -1 \/ y = -1 THEN -1
    ELSE (IF x % 2 = 1 \/ y % 2 = 1 THEN 1 ELSE 0) + 2 * BitOr(x \div 2, y \div 2)

RECURSIVE BitXor(_, _)
BitXor(x, y) ==
    IF x = 0 THEN y
    ELSE IF y = 0 THEN x
    ELSE IF x = -1 THEN -y - 1
    ELSE IF y = -1 THEN -x - 1
    ELSE (IF x % 2 # y % 2 THEN 1 ELSE 0) + 2 * BitXor(x \div 2, y \div 2)

PyAnd(a, b) ==
    IF a.k = "int" /\ b.k = "int" THEN IntV(BitAnd(a.n, b.n)) ELSE Raise("TypeError")
PyOr(a, b) ==
    IF a.k = "int" /\ b.k = "int" THEN IntV(BitOr(a.n, b.n)) ELSE Raise("TypeError")
PyXor(a, b) ==
    IF a.k = "int" /\ b.k = "int" THEN IntV(BitXor(a.n, b.n)) ELSE Raise("TypeError")
\* ~a
PyInvert(a) ==
    IF a.k = "int" THEN NumV("int", -a.n - 1, 1) ELSE Raise("TypeError")

RECURSIVE Pow2(_)
Pow2(e) == IF e = 0 THEN 1 ELSE 2 * Pow2(e - 1)
\* the largest shift count whose power of two the model computes
MaxShift == 15

\* a << b
PyLShift(a, b) ==
    IF a.k # "int" \/ b.k # "int" THEN Raise("TypeError")
    ELSE IF b.n < 0 THEN Raise("ValueError")
    ELSE IF a.n = 0 THEN IntV(0)
    ELSE IF b.n > MaxShift THEN TooBig
    ELSE NumV("int", a.n * Pow2(b.n), 1)

\* a >> b: floor division by 2^b
PyRShift(a, b) ==
    IF a.k # "int" \/ b.k # "int" THEN Raise("TypeError")
    ELSE IF b.n < 0 THEN Raise("ValueError")
    ELSE IF b.n > MaxShift THEN IntV(IF a.n < 0 THEN -1 ELSE 0)
    ELSE IntV(a.n \div Pow2(b.n))

(***************************************************************************)
(* bin() and int(text, 2), the two conversions of the flags register.      *)
(***************************************************************************)
RECURSIVE Digits(_)
Digits(x) ==
    IF x < 2 THEN <<IF x = 1 THEN "1" ELSE "0">>
    ELSE Append(Digits(x \div 2), IF x % 2 = 1 THEN "1" ELSE "0")
\* bin(x) for x >= 0: "0b" followed by the binary digits of x
Bin(x) == StrV(<<"0", "b">> \o Digits(x))

RECURSIVE DigitsValue(_)
DigitsValue(t) ==
    IF t = <<>> THEN 0
    ELSE 2 * DigitsValue(SubSeq(t, 1, Len(t) - 1)) + (IF t[Len(t)] = "1" THEN 1 ELSE 0)
\* t without the leading and trailing characters that are in chars
RECURSIVE StripChars(_, _)
StripChars(t, chars) ==
    IF t = <<>> THEN t
    ELSE IF t[1] \in chars THEN StripChars(Tail(t), chars)
    ELSE IF t[Len(t)] \in chars THEN StripChars(SubSeq(t, 1, Len(t) - 1), chars)
    ELSE t
\* the characters str.strip() and int() take for white space
Whitespace == {" ", "\t", "\n", "\r"}

\* int(v, 2): only a str converts with an explicit base; surrounding white
\* space and an optional "0b" prefix are skipped and binary digits must follow
PyIntBase2(v) ==
    IF v.k # "str" THEN Raise("TypeError")
    ELSE LET t    == StripChars(v.s, Whitespace)
             body == IF Len(t) >= 2 /\ t[1] = "0" /\ t[2] = "b"
                     THEN SubSeq(t, 3, Len(t)) ELSE t
         IN IF body = <<>> \/ \E j \in 1..Len(body) : body[j] \notin {"0", "1"}
            THEN Raise("ValueError")
            ELSE IntV(DigitsValue(body))

\* The value of an expression whose operands a (then b) may have raised: the
\* first exception, left to right, and else the result r of the operator.
Strict1(a, r) == IF IsExc(a) THEN a ELSE r
Strict2(a, b, r) == IF IsExc(a) THEN a ELSE IF IsExc(b) THEN b ELSE r

(***************************************************************************)
(* The opcode table (cpu.py:6-42): name -> eight binary digits.            *)
(***************************************************************************)
B(b7, b6, b5, b4, b3, b2, b1, b0) ==
    << IF b7 = 1 THEN "1" ELSE "0", IF b6 = 1 THEN "1" ELSE "0",
       IF b5 = 1 THEN "1" ELSE "0", IF b4 = 1 THEN "1" ELSE "0",
       IF b3 = 1 THEN "1" ELSE "0", IF b2 = 1 THEN "1" ELSE "0",
       IF b1 = 1 THEN "1" ELSE "0", IF b0 = 1 THEN "1" ELSE "0" >>

OPCODES ==
    [ ADD  |-> B(1,0,1,0,0,0,0,0), AND  |-> B(1,0,1,0,1,0,0,0),
      CALL |-> B(0,1,0,1,0,0,0,0), CMP  |-> B(1,0,1,0,0,1,1,1),
      DEC  |-> B(0,1,1,0,0,1,1,0), DIV  |-> B(1,0,1,0,0,0,1,1),
      HLT  |-> B(0,0,0,0,0,0,0,1), INC  |-> B(0,1,1,0,0,1,0,1),
      INT  |-> B(0,1,0,1,0,0,1,0), IRET |-> B(0,0,0,1,0,0,1,1),
      JEQ  |-> B(0,1,0,1,0,1,0,1), JGE  |-> B(0,1,0,1,1,0,1,0),
      JGT  |-> B(0,1,0,1,0,1,1,1), JLE  |-> B(0,1,0,1,1,0,0,1),
      JLT  |-> B(0,1,0,1,1,0,0,0), JMP  |-> B(0,1,0,1,0,1,0,0),
      JNE  |-> B(0,1,0,1,0,1,1,0), LD   |-> B(1,0,0,0,0,0,1,1),
      LDI  |-> B(1,0,0,0,0,0,1,0), MOD  |-> B(1,0,1,0,0,1,0,0),
      MUL  |-> B(1,0,1,0,0,0,1,0), NOP  |-> B(0,0,0,0,0,0,0,0),
      NOT  |-> B(0,1,1,0,1,0,0,1), OR   |-> B(1,0,1,0,1,0,1,0),
      POP  |-> B(0,1,0,0,0,1,1,0), PRA  |-> B(0,1,0,0,1,0,0,0),
      PRN  |-> B(0,1,0,0,0,1,1,1), PUSH |-> B(0,1,0,0,0,1,0,1),
      RAM  |-> B(0,1,0,0,1,1,1,1), RET  |-> B(0,0,0,1,0,0,0,1),
      SHL  |-> B(1,0,1,0,1,1,0,0), SHR  |-> B(1,0,1,0,1,1,0,1),
      ST   |-> B(1,0,0,0,0,1,0,0), SUB  |-> B(1,0,1,0,0,0,0,1),
      XOR  |-> B(1,0,1,0,1,0,1,1) ]

OpNames == DOMAIN OPCODES
\* int(OPCODES[opcode], 2), for every entry of the table
OpNums == [opcode \in OpNames |-> DigitsValue(OPCODES[opcode])]
op_num(opcode) == OpNums[opcode]
\* the entry of the table a byte value matches, "" when there is none (the
\* encodings are pairwise different, so the first match is the only one)
ByNum ==
    [n \in 0..255 |->
        IF \E opcode \in OpNames : OpNums[opcode] = n
        THEN CHOOSE opcode \in OpNames : OpNums[opcode] = n
        ELSE ""]

\* the step bound of run()
limit == 99
\* len(self.ram) and len(self.reg)
RamSize == 256
RegCount == 8
\* reserved registers
FL == 4
IM == 5
IS == 6
SP == 7

(***************************************************************************)
(* The state of a CPU object while run() executes.                         *)
(***************************************************************************)
VARIABLES
    pc,       \* self.pc
    ram,      \* self.ram: address -> value
    reg,      \* self.reg: register index -> value
    ir,       \* self.ir, the byte fetched last
    running,  \* run()'s local flag
    i,        \* run()'s iteration counter
    out,      \* the lines printed so far
    exit,     \* how run() ended: "none" while it loops, "returned", or the
              \* name of the exception that propagated out of it
    hist,     \* the last two iterations, newest first: the operation decoded
              \* and pc, reg as they were when it was fetched
    program,  \* the bytes of the program file that was loaded
    file,     \* load(): the lines of the file it is given
    line_no,  \* load(): the number of lines its for loop has taken
    next_address,  \* load(): its local address, where the next byte goes
    loading   \* load(): "start" before the reset, "lines" in the loop,
              \* "loaded" once returned, or the name of the exception raised

load_vars == <<file, line_no, next_address, loading>>
run_vars == <<pc, reg, ir, running, i, out, exit, hist, program>>
vars == <<pc, ram, reg, ir, running, i, out, exit, hist, program,
          file, line_no, next_address, loading>>

\* The machine a handler works on; exc names the exception it raised.
Machine == [pc |-> pc, ram |-> ram, reg |-> reg, out |-> out, exc |-> "none"]
Throw(m, e) == [m EXCEPT !.exc = e]
Raised(m) == m.exc # "none"

\* Python list subscript seq[v]: v must be an int in -size..size-1, and a
\* negative v counts from the end.
Subscript(v, size) ==
    IF IsExc(v) THEN v
    ELSE IF v.k # "int" THEN Raise("TypeError")
    ELSE IF v.n < -size \/ v.n >= size THEN Raise("IndexError")
    ELSE IntV(IF v.n < 0 THEN v.n + size ELSE v.n)

\* self.ram[address] as an expression
ram_read(m, address) ==
    LET at == Subscript(address, RamSize)
    IN IF IsExc(at) THEN at ELSE m.ram[at.n]
\* self.ram[address] = value: the value is evaluated before the subscript
ram_write(m, address, value) ==
    LET at == Subscript(address, RamSize)
    IN IF IsExc(value) THEN Throw(m, value.k)
       ELSE IF IsExc(at) THEN Throw(m, at.k)
       ELSE [m EXCEPT !.ram[at.n] = value]
\* self.reg[index] as an expression
reg_read(m, index) ==
    LET at == Subscript(index, RegCount)
    IN IF IsExc(at) THEN at ELSE m.reg[at.n]
\* self.reg[index] = value
reg_write(m, index, value) ==
    LET at == Subscript(index, RegCount)
    IN IF IsExc(value) THEN Throw(m, value.k)
       ELSE IF IsExc(at) THEN Throw(m, at.k)
       ELSE [m EXCEPT !.reg[at.n] = value]
\* self.pc = value
pc_write(m, value) ==
    IF IsExc(value) THEN Throw(m, value.k) ELSE [m EXCEPT !.pc = value]
\* print(...): the format and its argument
NoArg == IntV(0)
print(m, fmt, arg) ==
    IF IsExc(arg) THEN Throw(m, arg.k)
    ELSE [m EXCEPT !.out = Append(@, [fmt |-> fmt, arg |-> arg])]

(***************************************************************************)
(* CPU.alu (cpu.py:131-211).  reg_a and reg_b are the operand bytes.       *)
(***************************************************************************)
\* the operands self.reg[reg_a] and self.reg[reg_b]
A(m, reg_a) == reg_read(m, reg_a)
\* self.reg[reg_a] = <value of the operation on the two operands>
alu_store(m, reg_a, reg_b, result) ==
    reg_write(m, reg_a, Strict2(A(m, reg_a), A(m, reg_b), result))

alu_ADD(m, reg_a, reg_b) == alu_store(m, reg_a, reg_b, PyAdd(A(m, reg_a), A(m, reg_b)))
alu_AND(m, reg_a, reg_b) == alu_store(m, reg_a, reg_b, PyAnd(A(m, reg_a), A(m, reg_b)))
alu_MUL(m, reg_a, reg_b) == alu_store(m, reg_a, reg_b, PyMul(A(m, reg_a), A(m, reg_b)))
alu_OR(m, reg_a, reg_b)  == alu_store(m, reg_a, reg_b, PyOr(A(m, reg_a), A(m, reg_b)))
alu_SHL(m, reg_a, reg_b) == alu_store(m, reg_a, reg_b, PyLShift(A(m, reg_a), A(m, reg_b)))
alu_SHR(m, reg_a, reg_b) == alu_store(m, reg_a, reg_b, PyRShift(A(m, reg_a), A(m, reg_b)))
alu_SUB(m, reg_a, reg_b) == alu_store(m, reg_a, reg_b, PySub(A(m, reg_a), A(m, reg_b)))
alu_XOR(m, reg_a, reg_b) == alu_store(m, reg_a, reg_b, PyXor(A(m, reg_a), A(m, reg_b)))

\* the flag with Greater-than shifted in before Less-than, a fault C7 tells apart
cmp_flag_swapped(a, b) ==
    LET l == IF PyLt(a, b) THEN 1 ELSE 0
        g == IF PyLt(b, a) THEN 1 ELSE 0
        e == IF PyEq(a, b) THEN 1 ELSE 0
    IN ((0 + g) * 2 + l) * 2 + e

\* The flag CMP computes from the two register values: L, G, E shifted in.
cmp_flag(a, b) ==
    LET l == IF PyLt(a, b) THEN 1 ELSE 0
        g == IF PyLt(b, a) THEN 1 ELSE 0
        e == IF PyEq(a, b) THEN 1 ELSE 0
    IN ((0 + l) * 2 + g) * 2 + e

\* self.reg[self.FL] = bin(flag)
alu_CMP(m, reg_a, reg_b) ==
    LET a == reg_read(m, reg_a)
        b == reg_read(m, reg_b)
    IN IF IsExc(a) THEN Throw(m, a.k)
       ELSE IF IsExc(b) THEN Throw(m, b.k)
       ELSE IF ~PyOrdered(a, b) THEN Throw(m, "TypeError")
       ELSE reg_write(m, IntV(FL), Bin(cmp_flag(a, b)))

\* the one-operand operations do not look at reg_b
alu_DEC(m, reg_a, reg_b) ==
    reg_write(m, reg_a, Strict1(A(m, reg_a), PySub(A(m, reg_a), IntV(1))))
alu_INC(m, reg_a, reg_b) ==
    reg_write(m, reg_a, Strict1(A(m, reg_a), PyAdd(A(m, reg_a), IntV(1))))
alu_NOT(m, reg_a, reg_b) ==
    reg_write(m, reg_a, Strict1(A(m, reg_a), PyInvert(A(m, reg_a))))

\* DIV and MOD: a zero divisor prints the error and leaves the registers
alu_DIV(m, reg_a, reg_b) ==
    LET b == reg_read(m, reg_b)
    IN IF IsExc(b) THEN Throw(m, b.k)
       ELSE IF PyEq(b, IntV(0)) THEN print(m, "Error: Cannot divide by 0", NoArg)
       ELSE alu_store(m, reg_a, reg_b, PyTrueDiv(A(m, reg_a), A(m, reg_b)))
alu_MOD(m, reg_a, reg_b) ==
    LET b == reg_read(m, reg_b)
    IN IF IsExc(b) THEN Throw(m, b.k)
       ELSE IF PyEq(b, IntV(0)) THEN print(m, "Error: Cannot divide by 0", NoArg)
       ELSE alu_store(m, reg_a, reg_b, PyMod(A(m, reg_a), A(m, reg_b)))

AluOps == {"ADD", "AND", "CMP", "DEC", "DIV", "INC", "MOD", "MUL", "NOT", "OR",
           "SHL", "SHR", "SUB", "XOR"}

\* alu() called with an operation it has no branch for (cpu.py:210-211)
alu_unsupported(m, reg_a, reg_b) == Throw(m, "Exception")

(***************************************************************************)
(* CPU.OPS (cpu.py:327-485).  The operands args[0], args[1] that run()     *)
(* passes are the addresses pc + 1 and pc + 2.                             *)
(***************************************************************************)
arg0(m) == PyAdd(m.pc, IntV(1))
arg1(m) == PyAdd(m.pc, IntV(2))

\* self.reg[self.SP] -= 1 and += 1
sp_dec(m) == reg_write(m, IntV(SP), PySub(m.reg[SP], IntV(1)))
sp_inc(m) == reg_write(m, IntV(SP), PyAdd(m.reg[SP], IntV(1)))

OPS_JMP(m) ==
    LET register == ram_read(m, PyAdd(m.pc, IntV(1)))
    IN pc_write(m, reg_read(m, register))

\* CALL that pushes its own address, not that of its successor, a fault C6
\* tells apart
OPS_CALL_pushes_own_address(m) ==
    LET m1 == sp_dec(m)
        m2 == ram_write(m1, m1.reg[SP], m1.pc)
        register == ram_read(m2, PyAdd(m2.pc, IntV(1)))
    IN IF Raised(m1) THEN m1
       ELSE IF Raised(m2) THEN m2
       ELSE pc_write(m2, reg_read(m2, register))

OPS_CALL(m) ==
    LET m1 == sp_dec(m)
        m2 == ram_write(m1, m1.reg[SP], PyAdd(m1.pc, IntV(2)))
        register == ram_read(m2, PyAdd(m2.pc, IntV(1)))
    IN IF Raised(m1) THEN m1
       ELSE IF Raised(m2) THEN m2
       ELSE pc_write(m2, reg_read(m2, register))

OPS_INT(m)  == m
OPS_IRET(m) == m
OPS_NOP(m)  == m
OPS_PRA(m)  == m

\* self.pc += 2, the branch not taken
fall_through(m) == pc_write(m, PyAdd(m.pc, IntV(2)))
\* int(flag, 2) & 1 and int(flag >> k, 2) & 1
flag_bit(flag) == Strict1(PyIntBase2(flag), PyAnd(PyIntBase2(flag), IntV(1)))
shifted_flag_bit(flag, k) ==
    LET shifted == PyRShift(flag, IntV(k))
        number  == Strict1(shifted, PyIntBase2(shifted))
    IN Strict1(number, PyAnd(number, IntV(1)))

OPS_JEQ(m) ==
    LET e == flag_bit(m.reg[FL])
    IN IF IsExc(e) THEN Throw(m, e.k)
       ELSE IF e.n = 1 THEN OPS_JMP(m) ELSE fall_through(m)

\* JNE with the test of JEQ copied into it, a fault C3 tells apart
OPS_JNE_tests_equal(m) ==
    LET e == flag_bit(m.reg[FL])
    IN IF IsExc(e) THEN Throw(m, e.k)
       ELSE IF e.n = 1 THEN OPS_JMP(m) ELSE fall_through(m)

OPS_JNE(m) ==
    LET e == flag_bit(m.reg[FL])
    IN IF IsExc(e) THEN Throw(m, e.k)
       ELSE IF e.n = 0 THEN OPS_JMP(m) ELSE fall_through(m)

\* "a or b": b is evaluated only when a is false
OPS_JGE(m) ==
    LET e == flag_bit(m.reg[FL])
        g == shifted_flag_bit(m.reg[FL], 1)
    IN IF IsExc(e) THEN Throw(m, e.k)
       ELSE IF e.n = 1 THEN OPS_JMP(m)
       ELSE IF IsExc(g) THEN Throw(m, g.k)
       ELSE IF g.n # 0 THEN OPS_JMP(m) ELSE fall_through(m)

OPS_JGT(m) ==
    LET g == shifted_flag_bit(m.reg[FL], 1)
    IN IF IsExc(g) THEN Throw(m, g.k)
       ELSE IF g.n # 0 THEN OPS_JMP(m) ELSE fall_through(m)

OPS_JLE(m) ==
    LET e == flag_bit(m.reg[FL])
        l == shifted_flag_bit(m.reg[FL], 2)
    IN IF IsExc(e) THEN Throw(m, e.k)
       ELSE IF e.n = 1 THEN OPS_JMP(m)
       ELSE IF IsExc(l) THEN Throw(m, l.k)
       ELSE IF l.n # 0 THEN OPS_JMP(m) ELSE fall_through(m)

OPS_JLT(m) ==
    LET l == shifted_flag_bit(m.reg[FL], 2)
    IN IF IsExc(l) THEN Throw(m, l.k)
       ELSE IF l.n # 0 THEN OPS_JMP(m) ELSE fall_through(m)

\* reg_a and reg_b are args[0] and args[1] themselves, not the bytes there
OPS_LD(m) ==
    LET reg_a   == arg0(m)
        reg_b   == arg1(m)
        address == reg_read(m, reg_b)
        value   == ram_read(m, address)
    IN reg_write(m, reg_a, value)

OPS_LDI(m) ==
    LET register == ram_read(m, arg0(m))
        value    == ram_read(m, arg1(m))
    IN IF IsExc(register) THEN Throw(m, register.k)
       ELSE reg_write(m, register, value)

\* POP that copies the value and leaves SP where it was, a fault C5 tells apart
OPS_POP_keeps_sp(m) ==
    reg_write(m, ram_read(m, arg0(m)), ram_read(m, m.reg[SP]))

OPS_POP(m) ==
    LET m1 == reg_write(m, ram_read(m, arg0(m)), ram_read(m, m.reg[SP]))
    IN IF Raised(m1) THEN m1 ELSE sp_inc(m1)

\* PRN that prints its operand byte instead of the register it names, a fault
\* C8 tells apart
OPS_PRN_prints_index(m) ==
    LET address == ram_read(m, arg0(m))
    IN print(m, "{}", address)

OPS_PRN(m) ==
    LET address  == ram_read(m, arg0(m))
        register == reg_read(m, address)
    IN print(m, "{}", register)

OPS_PUSH(m) ==
    LET m1 == sp_dec(m)
    IN IF Raised(m1) THEN m1
       ELSE ram_write(m1, m1.reg[SP], reg_read(m1, ram_read(m1, arg0(m1))))

OPS_RET(m) ==
    LET return_address == ram_read(m, m.reg[SP])
    IN IF IsExc(return_address) THEN Throw(m, return_address.k)
       ELSE IF Raised(sp_inc(m)) THEN sp_inc(m)
       ELSE pc_write(sp_inc(m), return_address)

OPS_ST(m) ==
    LET address == reg_read(m, ram_read(m, arg0(m)))
        value   == reg_read(m, ram_read(m, arg1(m)))
    IN IF IsExc(address) THEN Throw(m, address.k)
       ELSE ram_write(m, address, value)

OPS_RAM(m) ==
    LET address == ram_read(m, arg0(m))
    IN print(m, "Value at RAM: {}", ram_read(m, address))

\* OPS() called with an operation it has no branch for (cpu.py:484-485)
OPS_invalid(m) == print(m, "Operation {} invalid.", NoArg)

(***************************************************************************)
(* CPU.run (cpu.py:242-325): one action per loop iteration, by the         *)
(* operation the fetched byte decodes to.                                  *)
(***************************************************************************)
\* The decode loop (cpu.py:254-276): the name whose encoding equals the
\* fetched value, "" when there is none.
\* "op_num == self.ir" is Python ==: the float 1.0 matches the encoding 1,
\* a str matches nothing.
Decode(fetched) ==
    IF IsNum(fetched) /\ fetched.d = 1 /\ fetched.n \in 0..255
    THEN ByNum[fetched.n]
    ELSE ""

OP_type(opcode) ==
    LET n == op_num(opcode)
    IN IF BitAnd(n \div 32, 1) = 1 THEN 8
       ELSE IF BitAnd(n \div 16, 1) = 1 THEN 9
       ELSE n \div 64

\* self.pc += k
advance(m, k) == pc_write(m, PyAdd(m.pc, IntV(k)))

\* the handler returned: self.pc += k
after(m, k) == IF Raised(m) THEN m ELSE advance(m, k)

\* the operand bytes run() reads for alu() (cpu.py:308)
operand_a(m) == ram_read(m, PyAdd(m.pc, IntV(1)))
operand_b(m) == ram_read(m, PyAdd(m.pc, IntV(2)))

\* The dispatch on OP_type (cpu.py:287-318) for a decoded operation.  ops is
\* the machine after the branch of OPS() that the name OP selects, and alu
\* the machine after its branch of alu() on the two operand bytes.
Dispatch(m, OP, ops, alu) ==
    CASE OP_type(OP) = 0 -> after(ops, 1)
      [] OP_type(OP) = 1 -> after(ops, 2)
      [] OP_type(OP) = 2 -> after(ops, 3)
      [] OP_type(OP) = 8 ->
            IF IsExc(operand_a(m)) THEN Throw(m, operand_a(m).k)
            ELSE IF IsExc(operand_b(m)) THEN Throw(m, operand_b(m).k)
            ELSE after(alu, 3)
      [] OP_type(OP) = 9 -> ops
      [] OTHER -> advance(print(m, "Operation {} type not found.", NoArg), 1)

\* HLT that steps over itself like a no-operand instruction, a fault C9 tells
\* apart
halt_and_advance(m) == advance(print(m, "    ~    ", NoArg), 1)

\* HLT (cpu.py:281-285): the mark is printed, nothing else changes
halt(m) == print(m, "    ~    ", NoArg)
\* the report without the step past the byte, a fault C17 tells apart
unknown_stays(m) == print(m, "Unknown request on line: {}", m.pc)

\* no entry of the table matched (cpu.py:320-323)
unknown(m) == advance(print(m, "Unknown request on line: {}", m.pc), 1)

\* The body of one iteration that fetched a byte: HLT stops the loop, an
\* unknown byte is reported and skipped, anything else is dispatched.
Execute(m, OP, ops, alu) ==
    IF OP = "HLT" THEN halt(m)
    ELSE IF OP # "" THEN Dispatch(m, OP, ops, alu)
    ELSE unknown(m)

\* the loop test letting one iteration too many through, a fault C16 tells apart
Looping_inclusive == exit = "none" /\ running /\ i <= limit

\* while running and i < limit (cpu.py:247)
Looping == exit = "none" /\ running /\ i < limit

Remember(OP) ==
    <<[op |-> OP, pc |-> pc, reg |-> reg]>> \o (IF hist = <<>> THEN <<>> ELSE <<hist[1]>>)

\* The fetch at pc succeeds and the byte decodes to OP ("" for no entry).
Fetched(OP) ==
    /\ Looping
    /\ IsVal(ram_read(Machine, pc))
    /\ Decode(ram_read(Machine, pc)) = OP

\* "running = False" is HLT's alone
still_running(OP) == OP # "HLT"

\* The rest of the iteration that fetched OP.
Iterate(OP, ops, alu) ==
    /\ \E m \in {Execute(Machine, OP, ops, alu)} :
          /\ m.exc # "ModelBound"
          /\ pc' = m.pc
          /\ ram' = m.ram
          /\ reg' = m.reg
          /\ out' = m.out
          /\ exit' = m.exc
    /\ ir' = ram_read(Machine, pc)
    /\ i' = i + 1
    /\ running' = still_running(OP)
    /\ hist' = Remember(OP)
    /\ UNCHANGED <<program, load_vars>>

ADD  ==
    Fetched("ADD") /\ Iterate("ADD", OPS_invalid(Machine),
        alu_ADD(Machine, operand_a(Machine), operand_b(Machine)))
AND  ==
    Fetched("AND") /\ Iterate("AND", OPS_invalid(Machine),
        alu_AND(Machine, operand_a(Machine), operand_b(Machine)))
CALL ==
    Fetched("CALL") /\ Iterate("CALL", OPS_CALL(Machine),
        alu_unsupported(Machine, operand_a(Machine), operand_b(Machine)))
CMP  ==
    Fetched("CMP") /\ Iterate("CMP", OPS_invalid(Machine),
        alu_CMP(Machine, operand_a(Machine), operand_b(Machine)))
DEC  ==
    Fetched("DEC") /\ Iterate("DEC", OPS_invalid(Machine),
        alu_DEC(Machine, operand_a(Machine), operand_b(Machine)))
DIV  ==
    Fetched("DIV") /\ Iterate("DIV", OPS_invalid(Machine),
        alu_DIV(Machine, operand_a(Machine), operand_b(Machine)))
HLT  ==
    Fetched("HLT") /\ Iterate("HLT", OPS_invalid(Machine),
        alu_unsupported(Machine, operand_a(Machine), operand_b(Machine)))
INC  ==
    Fetched("INC") /\ Iterate("INC", OPS_invalid(Machine),
        alu_INC(Machine, operand_a(Machine), operand_b(Machine)))
INT  ==
    Fetched("INT") /\ Iterate("INT", OPS_INT(Machine),
        alu_unsupported(Machine, operand_a(Machine), operand_b(Machine)))
IRET ==
    Fetched("IRET") /\ Iterate("IRET", OPS_IRET(Machine),
        alu_unsupported(Machine, operand_a(Machine), operand_b(Machine)))
JEQ  ==
    Fetched("JEQ") /\ Iterate("JEQ", OPS_JEQ(Machine),
        alu_unsupported(Machine, operand_a(Machine), operand_b(Machine)))
JGE  ==
    Fetched("JGE") /\ Iterate("JGE", OPS_JGE(Machine),
        alu_unsupported(Machine, operand_a(Machine), operand_b(Machine)))
JGT  ==
    Fetched("JGT") /\ Iterate("JGT", OPS_JGT(Machine),
        alu_unsupported(Machine, operand_a(Machine), operand_b(Machine)))
JLE  ==
    Fetched("JLE") /\ Iterate("JLE", OPS_JLE(Machine),
        alu_unsupported(Machine, operand_a(Machine), operand_b(Machine)))
JLT  ==
    Fetched("JLT") /\ Iterate("JLT", OPS_JLT(Machine),
        alu_unsupported(Machine, operand_a(Machine), operand_b(Machine)))
JMP  ==
    Fetched("JMP") /\ Iterate("JMP", OPS_JMP(Machine),
        alu_unsupported(Machine, operand_a(Machine), operand_b(Machine)))
JNE  ==
    Fetched("JNE") /\ Iterate("JNE", OPS_JNE(Machine),
        alu_unsupported(Machine, operand_a(Machine), operand_b(Machine)))
LD   ==
    Fetched("LD") /\ Iterate("LD", OPS_LD(Machine),
        alu_unsupported(Machine, operand_a(Machine), operand_b(Machine)))
LDI  ==
    Fetched("LDI") /\ Iterate("LDI", OPS_LDI(Machine),
        alu_unsupported(Machine, operand_a(Machine), operand_b(Machine)))
MOD  ==
    Fetched("MOD") /\ Iterate("MOD", OPS_invalid(Machine),
        alu_MOD(Machine, operand_a(Machine), operand_b(Machine)))
MUL  ==
    Fetched("MUL") /\ Iterate("MUL", OPS_invalid(Machine),
        alu_MUL(Machine, operand_a(Machine), operand_b(Machine)))
NOP  ==
    Fetched("NOP") /\ Iterate("NOP", OPS_NOP(Machine),
        alu_unsupported(Machine, operand_a(Machine), operand_b(Machine)))
NOT  ==
    Fetched("NOT") /\ Iterate("NOT", OPS_invalid(Machine),
        alu_NOT(Machine, operand_a(Machine), operand_b(Machine)))
OR   ==
    Fetched("OR") /\ Iterate("OR", OPS_invalid(Machine),
        alu_OR(Machine, operand_a(Machine), operand_b(Machine)))
POP  ==
    Fetched("POP") /\ Iterate("POP", OPS_POP(Machine),
        alu_unsupported(Machine, operand_a(Machine), operand_b(Machine)))
PRA  ==
    Fetched("PRA") /\ Iterate("PRA", OPS_PRA(Machine),
        alu_unsupported(Machine, operand_a(Machine), operand_b(Machine)))
PRN  ==
    Fetched("PRN") /\ Iterate("PRN", OPS_PRN(Machine),
        alu_unsupported(Machine, operand_a(Machine), operand_b(Machine)))
PUSH ==
    Fetched("PUSH") /\ Iterate("PUSH", OPS_PUSH(Machine),
        alu_unsupported(Machine, operand_a(Machine), operand_b(Machine)))
RAM  ==
    Fetched("RAM") /\ Iterate("RAM", OPS_RAM(Machine),
        alu_unsupported(Machine, operand_a(Machine), operand_b(Machine)))
RET  ==
    Fetched("RET") /\ Iterate("RET", OPS_RET(Machine),
        alu_unsupported(Machine, operand_a(Machine), operand_b(Machine)))
SHL  ==
    Fetched("SHL") /\ Iterate("SHL", OPS_invalid(Machine),
        alu_SHL(Machine, operand_a(Machine), operand_b(Machine)))
SHR  ==
    Fetched("SHR") /\ Iterate("SHR", OPS_invalid(Machine),
        alu_SHR(Machine, operand_a(Machine), operand_b(Machine)))
ST   ==
    Fetched("ST") /\ Iterate("ST", OPS_ST(Machine),
        alu_unsupported(Machine, operand_a(Machine), operand_b(Machine)))
SUB  ==
    Fetched("SUB") /\ Iterate("SUB", OPS_invalid(Machine),
        alu_SUB(Machine, operand_a(Machine), operand_b(Machine)))
XOR  ==
    Fetched("XOR") /\ Iterate("XOR", OPS_invalid(Machine),
        alu_XOR(Machine, operand_a(Machine), operand_b(Machine)))
\* the byte at pc is in no entry of the table
Unknown ==
    Fetched("") /\ Iterate("", OPS_invalid(Machine),
        alu_unsupported(Machine, operand_a(Machine), operand_b(Machine)))

\* The fetch self.ram_read(self.pc) itself raises (cpu.py:250).
FetchError ==
    /\ Looping
    /\ LET fetched == ram_read(Machine, pc)
       IN /\ IsExc(fetched)
          /\ exit' = fetched.k
    /\ i' = i + 1
    /\ UNCHANGED <<pc, ram, reg, ir, running, out, hist, program, load_vars>>

\* The loop condition "running and i < limit" is false: run() returns.
Return ==
    /\ exit = "none"
    /\ ~(running /\ i < limit)
    /\ exit' = "returned"
    /\ UNCHANGED <<pc, ram, reg, ir, running, i, out, hist, program, load_vars>>

(***************************************************************************)
(* The programs run() is started on.  load() (cpu.py:88-129) zeroes the    *)
(* memory and stores the bytes of the file from address 0 on.              *)
(***************************************************************************)
I0(op)       == <<op_num(op)>>
I1(op, a)    == <<op_num(op), a>>
I2(op, a, b) == <<op_num(op), a, b>>

\* the address of the subroutine (a lone RET) the enumerated programs hold
SubAddr == 17

Imm == 0..MaxImm \cup {255}
RegPairs == {<<0, 1>>, <<1, 0>>, <<2, 0>>, <<FL, 0>>}
Jumps == {"JMP", "JEQ", "JNE", "JGT", "JGE", "JLT", "JLE"}

\* the instructions a program body is made of
Instructions ==
    {I2(op, p[1], p[2]) : op \in (AluOps \ {"INC", "DEC", "NOT"}) \cup {"LD", "LDI", "ST"},
                          p \in RegPairs}
    \cup {I1(op, r) : op \in {"INC", "DEC", "NOT", "PUSH", "POP", "PRN", "PRA", "RAM"},
                      r \in {0, 1}}
    \cup {I1(op, 2) : op \in Jumps \cup {"CALL", "INT"}}
    \cup {I0(op) : op \in {"NOP", "HLT", "RET", "IRET"}}
    \cup {<<255>>}

RECURSIVE Zeros(_)
Zeros(c) == IF c <= 0 THEN <<>> ELSE <<0>> \o Zeros(c - 1)

\* the instruction sequences placed between the three LDI and the HLT
Bodies ==
    {first \o I1("PRN", 0) : first \in Instructions}
    \cup {I2("CMP", 0, 1) \o second : second \in Instructions}
    \cup {first \o I1("PUSH", r) \o I1("POP", r) : first \in Instructions, r \in {0, 1, SP}}
    \cup {first \o I1("JMP", 2) : first \in Instructions}

\* LDI R0,x; LDI R1,y; LDI R2,SubAddr; body; HLT; ...; SubAddr: RET
Body(x, y, body) ==
    LET code == I2("LDI", 0, x) \o I2("LDI", 1, y) \o I2("LDI", 2, SubAddr)
                \o body \o I0("HLT")
    IN code \o Zeros(SubAddr - Len(code)) \o I0("RET")

\* LDI R0,8; LDI R1,9; ADD R0,R1; PRN R0; HLT
PrintSum == I2("LDI", 0, 8) \o I2("LDI", 1, 9) \o I2("ADD", 0, 1) \o I1("PRN", 0) \o I0("HLT")
\* HLT as the very first instruction
HaltFirst == I0("HLT")

\* LDI R0,x; LDI R7,s; PUSH R0; POP R0; HLT with the stack laid over the code:
\* the PUSH stores x over its own operand, over the POP or over the HLT
StackInCode ==
    {I2("LDI", 0, x) \o I2("LDI", SP, s) \o I1("PUSH", 0) \o I1("POP", 0) \o I0("HLT") :
        x \in {0, 1, op_num("POP")}, s \in 7..12}

\* LDI R0,0; JMP R0: a jump back to address 0, for ever
JumpBack == I2("LDI", 0, 0) \o I1("JMP", 0)
\* limit - 1 NOP and then HLT, fetched by the last iteration the loop allows
NopsThenHalt == Zeros(limit - 1) \o I0("HLT")
\* limit NOP and then HLT, which the loop never gets to
NopsPastLimit == Zeros(limit) \o I0("HLT")
\* LDI R0,255; JMP R0: a jump to the last cell, a NOP, and pc steps past it
JumpToEnd == I2("LDI", 0, RamSize - 1) \o I1("JMP", 0)
\* LD R0,R1 at address 0, its operand bytes at addresses 1 and 2
LoadFirst == I2("LD", 0, 1) \o I0("HLT")

Programs ==
    {Body(x, y, body) : x \in Imm, y \in Imm, body \in Bodies}
    \cup StackInCode
    \cup {PrintSum, HaltFirst, JumpBack, NopsThenHalt, NopsPastLimit, LoadFirst,
          JumpToEnd}

\* the memory after load() of the file holding bytes
Image(bytes) ==
    [address \in 0..(RamSize - 1) |->
        IntV(IF address < Len(bytes) THEN bytes[address + 1] ELSE 0)]

Init ==
    /\ program \in Programs
    /\ pc = IntV(0)
    /\ ram = Image(program)
    /\ reg = [r \in 0..(RegCount - 1) |-> IF r = SP THEN IntV(RamSize - 1) ELSE IntV(0)]
    /\ ir = IntV(0)
    /\ running = TRUE
    /\ i = 0
    /\ out = <<>>
    /\ exit = "none"
    /\ hist = <<>>
    /\ file = <<>>
    /\ line_no = 0
    /\ next_address = 0
    /\ loading = "loaded"

Next ==
    \/ ADD \/ AND \/ CALL \/ CMP \/ DEC \/ DIV \/ HLT \/ INC \/ INT \/ IRET
    \/ JEQ \/ JGE \/ JGT \/ JLE \/ JLT \/ JMP \/ JNE \/ LD \/ LDI \/ MOD
    \/ MUL \/ NOP \/ NOT \/ OR \/ POP \/ PRA \/ PRN \/ PUSH \/ RAM \/ RET
    \/ SHL \/ SHR \/ ST \/ SUB \/ XOR \/ Unknown \/ FetchError \/ Return

Spec == Init /\ [][Next]_vars

(***************************************************************************)
(* CPU.load (cpu.py:88-129): the memory is reset and every line of the     *)
(* file that is not empty once its comment, spaces and line end are taken  *)
(* off is converted with int(line, 2) and stored at the next address.      *)
(***************************************************************************)
\* line.split('#')[0]: the text before the first "#"
RECURSIVE comment_split(_)
comment_split(line) ==
    IF line = <<>> \/ line[1] = "#" THEN <<>>
    ELSE <<line[1]>> \o comment_split(Tail(line))
\* t.replace(c, '') for every c in chars
RECURSIVE Without(_, _)
Without(t, chars) ==
    IF t = <<>> THEN t
    ELSE (IF t[1] \in chars THEN <<>> ELSE <<t[1]>>) \o Without(Tail(t), chars)
\* str(comment_split[0]).strip(' ') and then the two replace() calls
stripped(line) == Without(StripChars(comment_split(line), {" "}), {"\n", "\r"})
\* the line is skipped by one of the two tests line == ''
skipped(line) == line = <<>> \/ stripped(line) = <<>>
\* instruction = int(line, 2)
instruction(line) == PyIntBase2(StrV(stripped(line)))

\* load() without its reset of the memory, a fault C15 tells apart
reset_skipped(m) == m

\* self.ram = [0] * 256
reset_memory(m) == [m EXCEPT !.ram = [a \in 0..(RamSize - 1) |-> IntV(0)]]

\* the line the for loop takes next
Line == file[line_no + 1]
InLoop == loading = "lines" /\ line_no < Len(file)

\* address = 0; self.ram = [0] * 256
LoadReset ==
    /\ loading = "start"
    /\ ram' = reset_memory(Machine).ram
    /\ next_address' = 0
    /\ loading' = "lines"
    /\ UNCHANGED <<file, line_no, run_vars>>

\* continue
LoadSkip ==
    /\ InLoop /\ skipped(Line)
    /\ line_no' = line_no + 1
    /\ UNCHANGED <<ram, file, next_address, loading, run_vars>>

\* self.ram_write(address, instruction); address += 1
LoadStore ==
    /\ InLoop /\ ~skipped(Line)
    /\ LET m == ram_write(Machine, IntV(next_address), instruction(Line))
       IN ~Raised(m) /\ ram' = m.ram
    /\ next_address' = next_address + 1
    /\ line_no' = line_no + 1
    /\ UNCHANGED <<file, loading, run_vars>>

\* int() or the store raises and load() is left with the exception
LoadRaise ==
    /\ InLoop /\ ~skipped(Line)
    /\ LET m == ram_write(Machine, IntV(next_address), instruction(Line))
       IN Raised(m) /\ loading' = m.exc
    /\ UNCHANGED <<ram, file, line_no, next_address, run_vars>>

\* the file is exhausted
LoadReturn ==
    /\ loading = "lines" /\ line_no = Len(file)
    /\ loading' = "loaded"
    /\ UNCHANGED <<ram, file, line_no, next_address, run_vars>>

\* the files load() is given: at most MaxLines lines
MaxLines == 3

RECURSIVE Zfill(_, _)
Zfill(t, width) == IF Len(t) >= width THEN t ELSE Zfill(<<"0">> \o t, width)
\* the 8 binary digits of a byte
Bits8(x) == Zfill(Digits(x), 8)
Comment == <<"#", " ", "1">>
\* what a line holds before its line end
LineTexts ==
    {<<>>, <<" ", " ">>, <<"\t">>, Comment, <<" ">> \o Comment,
     Bits8(130), Bits8(1) \o <<" ">> \o Comment, Bits8(0) \o Comment,
     <<" ">> \o Bits8(255) \o <<" ", "\t">>, <<"1", "2">>}
\* every line ends with "\n", the last one of the file only if ended is true
Terminated(texts, ended) ==
    [j \in 1..Len(texts) |->
        IF j < Len(texts) \/ ended THEN texts[j] \o <<"\n">> ELSE texts[j]]
\* (a last line with neither text nor line end is no line at all)
Files ==
    {f \in {Terminated(texts, ended) :
                texts \in UNION {[1..n -> LineTexts] : n \in 0..MaxLines},
                ended \in BOOLEAN} :
        \A j \in 1..Len(f) : f[j] # <<>>}
\* what the memory holds when load() is called
PriorMemories ==
    {[a \in 0..(RamSize - 1) |-> IntV(0)], [a \in 0..(RamSize - 1) |-> IntV(255)]}

LoadInit ==
    /\ file \in Files
    /\ ram \in PriorMemories
    /\ line_no = 0
    /\ next_address = 0
    /\ loading = "start"
    /\ program = <<>>
    /\ pc = IntV(0)
    /\ reg = [r \in 0..(RegCount - 1) |-> IF r = SP THEN IntV(RamSize - 1) ELSE IntV(0)]
    /\ ir = IntV(0)
    /\ running = TRUE
    /\ i = 0
    /\ out = <<>>
    /\ exit = "none"
    /\ hist = <<>>

LoadNext == LoadReset \/ LoadSkip \/ LoadStore \/ LoadRaise \/ LoadReturn

LoadSpec == LoadInit /\ [][LoadNext]_vars

(***************************************************************************)
(* What the properties below read off the history.                         *)
(***************************************************************************)
\* the last iteration decoded op and raised nothing
Completed(op) == hist # <<>> /\ hist[1].op = op /\ exit \notin Exceptions
\* the last two iterations decoded first, then second, and raised nothing
CompletedTwo(first, second) ==
    Len(hist) = 2 /\ hist[2].op = first /\ hist[1].op = second /\ exit \notin Exceptions
\* the byte k places after the instruction remembered in h (memory as it is now)
OperandOf(h, k) == ram_read(Machine, PyAdd(h.pc, IntV(k)))
\* the value register index held when the instruction remembered in h was fetched
RegisterAt(h, index) == reg_read([Machine EXCEPT !.reg = h.reg], index)
IsByte(v) == v.k = "int" /\ v.n \in 0..255
IsRegisterIndex(v) == v.k = "int" /\ v.n \in 0..(RegCount - 1)
\* the values PRN printed, in order
Printed ==
    LET lines == SelectSeq(out, LAMBDA line : line.fmt = "{}")
    IN [j \in 1..Len(lines) |-> lines[j].arg]
\* R0..R6 = 0 and R7 = 255
InitialRegisters == [r \in 0..7 |-> IF r = 7 THEN IntV(255) ELSE IntV(0)]

(***************************************************************************)
(* C1.  When DIV or MOD finds 0 in its second operand register the machine *)
(* halts at that instruction: once the diagnostic is printed no further    *)
(* iteration runs, and pc, the registers, the memory and the output stay   *)
(* as they are.                                                            *)
(***************************************************************************)
DivisionByZeroReported ==
    /\ Completed("DIV") \/ Completed("MOD")
    /\ PyEq(RegisterAt(hist[1], OperandOf(hist[1], 2)), IntV(0))
    /\ out # <<>> /\ out[Len(out)].fmt = "Error: Cannot divide by 0"

\* C1: after the division-by-zero diagnostic the loop is stopped and no step
\* changes pc, a register, a memory cell or the output
C1_HaltsOnDivisionByZero ==
    [][DivisionByZeroReported =>
          /\ ~running
          /\ i' = i /\ pc' = pc /\ reg' = reg /\ ram' = ram /\ out' = out]_vars

(***************************************************************************)
(* C2.  JGT, JGE, JLT, JLE at address p with operand register r, executed  *)
(* right after a CMP of registers holding the integers a and b: pc becomes *)
(* Register[r] when the condition holds (a > b, a >= b, a < b, a <= b) and *)
(* p + 2 otherwise, and the machine keeps running.                         *)
(***************************************************************************)
OrderedJumps == {"JGT", "JGE", "JLT", "JLE"}
JumpCondition(op, a, b) ==
    CASE op = "JGT" -> a > b
      [] op = "JGE" -> a >= b
      [] op = "JLT" -> a < b
      [] op = "JLE" -> a <= b

\* C2: after CMP, an ordered jump has set pc to its target or to p + 2 as its
\* condition says, and the machine is still running
C2_OrderedJumps ==
    \A op \in OrderedJumps :
        (Len(hist) = 2 /\ hist[2].op = "CMP" /\ hist[1].op = op) =>
            LET a      == RegisterAt(hist[2], OperandOf(hist[2], 1))
                b      == RegisterAt(hist[2], OperandOf(hist[2], 2))
                target == RegisterAt(hist[1], OperandOf(hist[1], 1))
            IN (a.k = "int" /\ b.k = "int" /\ IsVal(target)) =>
                  /\ exit \notin Exceptions
                  /\ running
                  /\ pc = IF JumpCondition(op, a.n, b.n) THEN target
                          ELSE PyAdd(hist[1].pc, IntV(2))

(***************************************************************************)
(* C3.  JEQ (JNE) at address p with operand register r, executed right     *)
(* after a CMP of registers holding a and b, sets pc to Register[r] when   *)
(* a = b (a # b) and to p + 2 otherwise, and changes no register and no    *)
(* memory cell.                                                            *)
(***************************************************************************)
C3_EqualityJumps ==
    [][(Completed("CMP") /\ exit = "none" /\ (JEQ \/ JNE)) =>
          LET a      == RegisterAt(hist[1], OperandOf(hist[1], 1))
              b      == RegisterAt(hist[1], OperandOf(hist[1], 2))
              r      == operand_a(Machine)
              target == reg_read(Machine, r)
              taken  == IF Fetched("JEQ") THEN PyEq(a, b) ELSE ~PyEq(a, b)
          IN (IsRegisterIndex(r) /\ IsVal(target)) =>
                /\ pc' = IF taken THEN target ELSE PyAdd(pc, IntV(2))
                /\ reg' = reg
                /\ ram' = ram
                /\ exit' = "none" /\ running']_vars

\* a JEQ after a CMP of equal values has jumped to the subroutine
C3_Witness ==
    /\ CompletedTwo("CMP", "JEQ")
    /\ PyEq(RegisterAt(hist[2], OperandOf(hist[2], 1)),
            RegisterAt(hist[2], OperandOf(hist[2], 2)))
    /\ pc = IntV(SubAddr)

(***************************************************************************)
(* C4.  Registers are 8 bits wide: ADD, SUB, MUL, INC, DEC, NOT and SHL    *)
(* reduce their result modulo 256, so registers that held bytes hold bytes *)
(* afterwards.                                                             *)
(***************************************************************************)
WrappingOps == {"ADD", "SUB", "MUL", "INC", "DEC", "NOT", "SHL"}

\* C4: a wrapping ALU operation on registers that hold bytes leaves bytes
C4_RegistersStayBytes ==
    (/\ hist # <<>>
     /\ hist[1].op \in WrappingOps
     /\ exit \notin Exceptions
     /\ \A r \in 0..(RegCount - 1) : IsByte(hist[1].reg[r]))
    => \A r \in 0..(RegCount - 1) : IsByte(reg[r])

(***************************************************************************)
(* C5.  PUSH r immediately followed by POP r, r in 0..7, leaves            *)
(* Register[r] and SP as they were before the PUSH.                        *)
(***************************************************************************)
C5_PushPopRestores ==
    [][(Completed("PUSH") /\ exit = "none" /\ POP /\ exit' = "none") =>
          LET r == operand_a(Machine)
          IN (IsRegisterIndex(r) /\ OperandOf(hist[1], 1) = r) =>
                /\ reg'[r.n] = hist[1].reg[r.n]
                /\ reg'[SP] = hist[1].reg[SP]]_vars

\* PUSH R7; POP R7 has run, the case in which the register is SP itself
C5_Witness ==
    /\ CompletedTwo("PUSH", "POP")
    /\ OperandOf(hist[2], 1) = IntV(SP) /\ OperandOf(hist[1], 1) = IntV(SP)
    /\ reg[SP] = hist[2].reg[SP]

(***************************************************************************)
(* C6.  After CALL r at address p and the RET found at the address in      *)
(* Register[r], pc is p + 2 and SP is what it was before the CALL.         *)
(***************************************************************************)
C6_CallRetReturns ==
    [][(Completed("CALL") /\ exit = "none" /\ RET /\ exit' = "none") =>
          /\ pc' = PyAdd(hist[1].pc, IntV(2))
          /\ reg'[SP] = hist[1].reg[SP]]_vars

C6_Witness ==
    /\ CompletedTwo("CALL", "RET")
    /\ hist[1].pc = IntV(SubAddr)
    /\ pc = PyAdd(hist[2].pc, IntV(2))

(***************************************************************************)
(* C7.  After CMP of registers holding the integers a and b the flags      *)
(* register encodes one bit: bit 0 (Equal) iff a = b, bit 1 (Greater) iff  *)
(* a > b, bit 2 (Less) iff a < b, and nothing above bit 2.                 *)
(***************************************************************************)
Bit(x, k) == (x \div Pow2(k)) % 2

\* C7: the flags register after CMP decodes to exactly the one bit of the
\* ordering of a and b
C7_FlagsAfterCmp ==
    Completed("CMP") =>
        LET a    == RegisterAt(hist[1], OperandOf(hist[1], 1))
            b    == RegisterAt(hist[1], OperandOf(hist[1], 2))
            flag == PyIntBase2(reg[FL])
        IN (a.k = "int" /\ b.k = "int") =>
              /\ flag.k = "int" /\ flag.n \in 0..7
              /\ Bit(flag.n, 0) = 1 <=> a.n = b.n
              /\ Bit(flag.n, 1) = 1 <=> a.n > b.n
              /\ Bit(flag.n, 2) = 1 <=> a.n < b.n
              /\ Bit(flag.n, 0) + Bit(flag.n, 1) + Bit(flag.n, 2) = 1

\* a CMP of a smaller with a larger value has set Less-than
C7_Witness ==
    /\ Completed("CMP")
    /\ RegisterAt(hist[1], OperandOf(hist[1], 1)) = IntV(0)
    /\ RegisterAt(hist[1], OperandOf(hist[1], 2)) = IntV(255)
    /\ reg[FL] = StrV(<<"0", "b", "1", "0", "0">>)

(***************************************************************************)
(* C8.  LDI R0,8; LDI R1,9; ADD R0,R1; PRN R0; HLT prints 17 and nothing   *)
(* else through PRN, and then halts with pc = 11 (the HLT), R0 = 17 and    *)
(* R1 = 9.                                                                 *)
(***************************************************************************)
PrintSumDone ==
    /\ exit = "returned" /\ ~running
    /\ pc = IntV(11)
    /\ reg[0] = IntV(17) /\ reg[1] = IntV(9)
    /\ Printed = <<IntV(17)>>

\* C8: the program prints 17 alone and ends, within its five instructions, in
\* the halted state described; until run() has returned a step is possible
C8_PrintSumHalts ==
    program = PrintSum =>
        /\ Printed \in {<<>>, <<IntV(17)>>}
        /\ i <= 5
        /\ exit \in {"none", "returned"}
        /\ exit = "returned" => PrintSumDone
        /\ exit = "none" => ENABLED Next

C8_Witness == program = PrintSum /\ PrintSumDone

(***************************************************************************)
(* C9.  The iteration that fetches HLT stops the loop and leaves every     *)
(* register, every memory cell and pc as they were; nothing executes       *)
(* afterwards; with HLT at address 0 the machine ends in its initial       *)
(* state.                                                                  *)
(***************************************************************************)
C9_HaltChangesNothing ==
    /\ [][HLT => (~running' /\ pc' = pc /\ reg' = reg /\ ram' = ram)]_vars
    /\ [][~running =>
            (i' = i /\ pc' = pc /\ reg' = reg /\ ram' = ram /\ out' = out)]_vars
    /\ []((program = HaltFirst /\ hist # <<>>) =>
            /\ ~running /\ exit \in {"none", "returned"}
            /\ pc = IntV(0)
            /\ reg = InitialRegisters
            /\ ram = Image(HaltFirst))

C9_Witness ==
    program = HaltFirst /\ Completed("HLT") /\ exit = "returned" /\ i = 1

(***************************************************************************)
(* C10.  An iteration on any opcode other than HLT whose bit 4 ("sets the  *)
(* PC") is clear moves pc from p to p + 1 + n, n being the operand count   *)
(* in bits 7-6 of the opcode, for the one-operand ALU operations too.      *)
(***************************************************************************)
C10_AdvanceByOperandCount ==
    [][\A op \in OpNames \ {"HLT"} :
          (/\ Fetched(op)
           /\ Bit(op_num(op), 4) = 0
           /\ i' = i + 1 /\ exit' = "none")
          => pc' = PyAdd(pc, IntV(1 + op_num(op) \div 64))]_vars

(***************************************************************************)
(* C11.  INT and IRET are no-ops the dispatcher steps over: the iteration  *)
(* changes no register and no memory cell and moves pc past the            *)
(* instruction (INT r has one operand byte, IRET none), so the HLT that    *)
(* follows is reached.                                                     *)
(***************************************************************************)
\* the operand count in bits 7-6 of the opcode
OperandCount(op) == op_num(op) \div 64

\* C11: an iteration on INT or IRET leaves reg and ram alone and moves pc to
\* the instruction that follows
C11_IntIretAdvance ==
    [][\A op \in {"INT", "IRET"} :
          (Fetched(op) /\ i' = i + 1) =>
              /\ exit' = "none"
              /\ reg' = reg
              /\ ram' = ram
              /\ pc' = PyAdd(pc, IntV(1 + OperandCount(op)))]_vars

(***************************************************************************)
(* C12.  The stack pointer, register 7, holds a memory address (an integer *)
(* in 0..255) in every reachable state.                                    *)
(***************************************************************************)
C12_StackPointerIsAddress == IsByte(reg[SP])

(***************************************************************************)
(* C13.  Only CMP writes the flags register: an iteration on any other     *)
(* instruction leaves register 4 as it was.                                *)
(***************************************************************************)
C13_OnlyCmpWritesFlags ==
    [][(i' = i + 1 /\ ~Fetched("CMP")) => reg'[FL] = reg[FL]]_vars

(***************************************************************************)
(* C14.  With every operand byte of the instruction at pc a register index *)
(* and pc and the registers holding addresses, an iteration does not end   *)
(* run() with an exception: the loop is left through HLT or the iteration  *)
(* bound alone.  The flags register is exempt from the condition on the    *)
(* registers, since CMP itself leaves text in it.                          *)
(***************************************************************************)
\* the operation the next fetch decodes, "" when the fetch fails
NextOp ==
    IF IsVal(ram_read(Machine, pc)) THEN Decode(ram_read(Machine, pc)) ELSE ""
\* pc, the registers and the operand bytes of the next instruction are in range
OperandsInRange ==
    /\ IsByte(pc)
    /\ \A r \in (0..(RegCount - 1)) \ {FL} : IsByte(reg[r])
    /\ NextOp # ""
    /\ \A k \in 1..OperandCount(NextOp) :
          IsRegisterIndex(ram_read(Machine, PyAdd(pc, IntV(k))))

\* C14: from such a state no iteration raises
C14_OnlyHaltOrBound ==
    [][(Looping /\ OperandsInRange /\ i' = i + 1) => exit' \notin Exceptions]_vars

(***************************************************************************)
(* C15.  After load() of a program image (binary lines of 8 digits, each   *)
(* optionally followed by white space and a comment, among blank and       *)
(* comment-only lines) the memory holds the values of the binary lines in  *)
(* order from address 0 and 0 everywhere else, whatever it held before.    *)
(***************************************************************************)
\* the line without its line end
Text(line) ==
    IF line # <<>> /\ line[Len(line)] = "\n" THEN SubSeq(line, 1, Len(line) - 1)
    ELSE line
\* the number of spaces the line starts with
RECURSIVE Indent(_)
Indent(t) == IF t # <<>> /\ t[1] = " " THEN 1 + Indent(Tail(t)) ELSE 0
\* nothing but spaces
IsBlankLine(line) == Indent(Text(line)) = Len(Text(line))
\* a comment after spaces at most
IsCommentLine(line) ==
    LET t == Text(line)
    IN Indent(t) < Len(t) /\ t[Indent(t) + 1] = "#"
\* 8 binary digits, then spaces and tabs, then a comment or the end
IsBinaryLine(line) ==
    LET t == Text(line)
        n == Indent(t)
    IN /\ Len(t) >= n + 8
       /\ \A j \in (n + 1)..(n + 8) : t[j] \in {"0", "1"}
       /\ \A j \in (n + 9)..Len(t) :
             \/ t[j] \in {" ", "\t"}
             \/ \E k \in (n + 9)..j : t[k] = "#"
\* the byte a binary line stands for
LineValue(line) ==
    DigitsValue(SubSeq(Text(line), Indent(Text(line)) + 1, Indent(Text(line)) + 8))
IsProgramImage(f) ==
    \A j \in 1..Len(f) : IsBlankLine(f[j]) \/ IsCommentLine(f[j]) \/ IsBinaryLine(f[j])
\* the bytes of the binary lines of f, in order
RECURSIVE ImageBytes(_)
ImageBytes(f) ==
    IF f = <<>> THEN <<>>
    ELSE (IF IsBinaryLine(f[1]) THEN <<LineValue(f[1])>> ELSE <<>>) \o ImageBytes(Tail(f))

C16_AtMostLimitIterations ==
    /\ i <= limit
    /\ exit = "returned" => (~running \/ i = limit)
    /\ (program = NopsThenHalt /\ exit = "returned") =>
          (i = limit /\ ~running /\ Completed("HLT") /\ pc = IntV(limit - 1))
    /\ (program = NopsPastLimit /\ exit = "returned") =>
          (i = limit /\ running /\ Completed("NOP") /\ pc = IntV(limit))
    /\ (program = JumpBack /\ exit = "returned") => (i = limit /\ running)
    /\ (program = JumpBack /\ exit = "none" /\ i >= limit - 1) => ENABLED Next

\* the endless loop has been left after 99 iterations
C16_Witness ==
    program = JumpBack /\ exit = "returned" /\ i = limit /\ running

(***************************************************************************)
(* C17.  An iteration whose fetched byte matches no entry of the table     *)
(* leaves the registers and the memory alone, adds 1 to pc and keeps the   *)
(* loop running.                                                           *)
(***************************************************************************)
C17_UnknownByteSkipped ==
    [][Unknown =>
          /\ reg' = reg
          /\ ram' = ram
          /\ pc' = PyAdd(pc, IntV(1))
          /\ running' /\ exit' = "none"
          /\ i' = i + 1]_vars

\* the byte 255 after the three LDI has been skipped
C17_Witness ==
    /\ Completed("") /\ exit = "none" /\ running
    /\ ram_read(Machine, hist[1].pc) = IntV(255)
    /\ pc = PyAdd(hist[1].pc, IntV(1))
    /\ out # <<>> /\ out[Len(out)].arg = hist[1].pc

(***************************************************************************)
(* C18.  DIV rA,rB on bytes a and b >= 1 leaves the integer quotient of a  *)
(* by b in register rA and, when rA # rB, b in register rB.                *)
(***************************************************************************)
C18_DivIsIntegerQuotient ==
    Completed("DIV") =>
        LET rA == OperandOf(hist[1], 1)
            rB == OperandOf(hist[1], 2)
            a  == RegisterAt(hist[1], rA)
            b  == RegisterAt(hist[1], rB)
        IN (/\ IsRegisterIndex(rA) /\ IsRegisterIndex(rB)
            /\ IsByte(a) /\ IsByte(b) /\ b.n >= 1)
           => /\ PyEq(reg[rA.n], IntV(a.n \div b.n))
              /\ rA # rB => reg[rB.n] = b

(***************************************************************************)
(* C19.  LD at p with operand bytes rA and rB, both register indices, sets *)
(* register rA to the memory cell register rB addresses, changes nothing   *)
(* else in the registers and the memory, and moves pc to p + 3.            *)
(***************************************************************************)
C19_LdLoadsThroughRegister ==
    [][(Fetched("LD") /\ i' = i + 1) =>
          LET rA == operand_a(Machine)
              rB == operand_b(Machine)
          IN (IsRegisterIndex(rA) /\ IsRegisterIndex(rB) /\ IsByte(reg[rB.n]))
             => /\ exit' = "none"
                /\ reg' = [reg EXCEPT ![rA.n] = ram[reg[rB.n].n]]
                /\ ram' = ram
                /\ pc' = PyAdd(pc, IntV(3))]_vars

(***************************************************************************)
(* C20.  Every memory cell holds a byte in every reachable state.  (That   *)
(* the memory has 256 cells is the domain of ram, which no statement of    *)
(* the program can change: list item assignment never grows a list.)       *)
(***************************************************************************)
C20_MemoryHoldsBytes ==
    /\ DOMAIN ram = 0..(RamSize - 1)
    /\ \A a \in 0..(RamSize - 1) : IsByte(ram[a])

(***************************************************************************)
(* C21.  Whenever the loop is about to fetch, pc is an integer in 0..255,  *)
(* so the fetch self.ram[self.pc] addresses a cell of the memory.          *)
(***************************************************************************)
C21_PcIsAddress == Looping => IsByte(pc)

====
